---- MODULE Spec2Model ----
(***************************************************************************)
(* Model of blackjack.py: the shoe (crear_mazo, crear_mazo_partida,        *)
(* ensure_mazo, tomar_carta), the hand evaluator (contar_puntos,           *)
(* es_blackjack), the round engine (jugar_mano_basica) and the betting     *)
(* session (apuesta_con_opciones, ruina_del_jugador).                      *)
(*                                                                         *)
(* Units.  The payout factor takes the values -2, -1, -0.5, 0, 1, 1.5, 2.  *)
(* The variable factor holds TWICE the payout factor (an integer), and     *)
(* apuesta_factor twice the multiplier 1.0 / 2.0.  Money (dinero,          *)
(* current_bet, evolucion, ...) is held in units of 1/Escala, Escala being *)
(* 2^max_rondas: each round divides by two at most once, so every amount   *)
(* the program computes in max_rondas rounds is an integer in that unit    *)
(* (the floats of the program are exact on these dyadic values).           *)
(***************************************************************************)
EXTENDS Integers, Sequences, FiniteSets, TLC

VARIABLES
    args,           \* the arguments of ruina_del_jugador (never modified)
    mazo,           \* the shoe, a list; tomar_carta pops its LAST element
    jugador,        \* the player's hand of the current round
    crupier,        \* the dealer's hand of the current round
    apuesta_factor, \* twice the multiplier of the round (2 = 1.0, 4 = 2.0)
    doubled,        \* the player doubled in this round
    resultado,      \* outcome tag returned by jugar_mano_basica
    factor,         \* twice the payout factor returned by jugar_mano_basica
    dinero,         \* bankroll
    dinero_antes,   \* bankroll at the start of the current round
    current_bet,    \* bet of the session loop
    bet_used,       \* bet returned by apuesta_con_opciones
    rondas,         \* rounds played
    evolucion,      \* bankroll history
    mazo_ronda,     \* the shoe right after ensure_mazo in the current round
    pc,             \* position in the program
    mano,           \* argument of the evaluator under test (SpecPuntos)
    puntos          \* result of contar_puntos(mano) (SpecPuntos)

vars == <<args, mazo, jugador, crupier, apuesta_factor, doubled, resultado,
          factor, dinero, dinero_antes, current_bet, bet_used, rondas,
          evolucion, mazo_ronda, pc, mano, puntos>>

(***************************************************************************)
(* Bounds of the model.                                                    *)
(***************************************************************************)
\* longest hand given to contar_puntos in SpecPuntos
MaxMano == 4
\* number of cards on top of a shuffled shoe that are chosen freely
MaxCima == 4
\* the rest of a shuffled shoe is the unshuffled deck cut at 0..MaxCorte
MaxCorte == 1
\* largest max_rondas of a betting session
MaxRondas == 3
\* largest initial bankroll of a betting session (in whole units)
MaxDinero == 2
\* rounds of the long sessions that run the shoe down
RondasLargas == 13
\* largest reshuffle threshold of the long sessions
MaxUmbral == 1

\* ranks the freely chosen top cards are taken from
Cima == {1, 5, 6, 10}

(***************************************************************************)
(* Shoe                                                                    *)
(***************************************************************************)
\* s * n for a Python list
Repetir(s, n) == [i \in 1..(Len(s) * n) |-> s[((i - 1) % Len(s)) + 1]]

valores == <<1, 2, 3, 4, 5, 6, 7, 8, 9, 10, 10, 10, 10>>

crear_mazo == Repetir(valores, 4)

\* number of cards equal to c in the list s
RECURSIVE Cuenta(_, _)
Cuenta(s, c) ==
    IF s = <<>> THEN 0
    ELSE (IF s[Len(s)] = c THEN 1 ELSE 0) + Cuenta(SubSeq(s, 1, Len(s) - 1), c)

\* s without its last occurrence of c
RECURSIVE Quitar(_, _)
Quitar(s, c) ==
    IF s = <<>> THEN <<>>
    ELSE IF s[Len(s)] = c THEN SubSeq(s, 1, Len(s) - 1)
    ELSE Append(Quitar(SubSeq(s, 1, Len(s) - 1), c), s[Len(s)])

RECURSIVE QuitarTodas(_, _)
QuitarTodas(s, cs) ==
    IF cs = <<>> THEN s ELSE QuitarTodas(Quitar(s, cs[1]), Tail(cs))

Invertir(s) == [i \in 1..Len(s) |-> s[Len(s) + 1 - i]]

\* One outcome of random.shuffle(base): the cards of cima are drawn first
\* (cima[1] first), the others follow in the order of base cut at corte.
Barajar(base, cima, corte) ==
    LET n == Len(base)
        cortado == [i \in 1..n |-> base[((i - 1 + corte) % n) + 1]]
    IN  QuitarTodas(cortado, cima) \o Invertir(cima)

\* One more outcome of random.shuffle on a single deck, given by the order
\* in which its cards are drawn: the high cards first, the fifteen lowest
\* last.
MazoDescendente ==
    Invertir(<<10, 10, 10, 10, 10, 10, 10, 10, 10, 10, 10, 10, 10, 10, 10, 10,
               9, 9, 9, 9, 8, 8, 8, 8, 7, 7, 7, 7, 6, 6, 5, 6, 6, 5, 3, 5, 5,
               1, 1, 4, 4, 1, 1, 2, 2, 2, 2, 3, 3, 3, 4, 4>>)

\* The outcomes of random.shuffle the model considers: every one is a
\* permutation of base; shuffling no card leaves no card.
Barajados(base) ==
    { Barajar(base, cima, corte) :
        cima \in { c \in [1..MaxCima -> Cima] :
                     \A v \in Cima : Cuenta(c, v) <= Cuenta(base, v) },
        corte \in 0..MaxCorte }
    \cup (IF Len(base) = Len(MazoDescendente) THEN {MazoDescendente} ELSE {})
    \cup (IF base = <<>> THEN {<<>>} ELSE {})

crear_mazo_partida(n_barajas) == Barajados(Repetir(crear_mazo, n_barajas))

\* a fault: a shoe of exactly threshold cards is replaced too
ensure_mazo_menor_o_igual(m, n_barajas, threshold) ==
    IF Len(m) <= threshold THEN crear_mazo_partida(n_barajas) ELSE {m}

\* ensure_mazo returns the shoe itself or a freshly shuffled one
ensure_mazo(m, n_barajas, threshold) ==
    IF Len(m) < threshold THEN crear_mazo_partida(n_barajas) ELSE {m}

(***************************************************************************)
(* Hand evaluator                                                          *)
(***************************************************************************)
\* lines 46-53: the sum with every ace counted as 11
RECURSIVE SumaOnce(_)
SumaOnce(m) ==
    IF m = <<>> THEN 0
    ELSE (IF m[1] = 1 THEN 11 ELSE m[1]) + SumaOnce(Tail(m))

\* lines 54-59: the reduction loop; returns <<total, reductions>>
RECURSIVE Reducir(_, _, _)
Reducir(total, aces_remaining, reductions) ==
    IF total > 21 /\ aces_remaining > 0
    THEN Reducir(total - 10, aces_remaining - 1, reductions + 1)
    ELSE <<total, reductions>>

\* a fault: every ace is reduced as soon as the hand is over 21
contar_puntos_reduce_todos(m) ==
    LET aces == Cuenta(m, 1)
        total == SumaOnce(m)
    IN  IF total > 21 /\ aces > 0
        THEN [total |-> total - 10 * aces, es_suave |-> FALSE]
        ELSE [total |-> total, es_suave |-> aces > 0]

contar_puntos(m) ==
    LET aces == Cuenta(m, 1)
        r == Reducir(SumaOnce(m), aces, 0)
        ace11_count == aces - r[2]
    IN  [total |-> r[1], es_suave |-> ace11_count > 0]

es_blackjack(m) == Len(m) = 2 /\ contar_puntos(m).total = 21

(***************************************************************************)
(* Round engine: jugar_mano_basica, one action per step of its body.       *)
(* tomar_carta on an empty shoe raises IndexError, which nothing catches:  *)
(* the program stops at pc = "IndexError".                                 *)
(***************************************************************************)
\* money unit: one whole unit of money is Escala units of the model
Escala == 2 ^ args.max_rondas

base_bet == args.dinero_apostado * Escala

\* tomar_carta: the card returned and the shoe left (mazo.pop())
Carta(m) == m[Len(m)]
\* a fault: the card taken is the last one, the card removed the first one
Resto_por_delante(m) == SubSeq(m, 2, Len(m))

\* the shoe after mazo.pop()
Resto(m) == SubSeq(m, 1, Len(m) - 1)

IndexError ==
    /\ pc' = "IndexError"
    /\ UNCHANGED <<mazo, jugador, crupier, apuesta_factor, doubled,
                   resultado, factor>>

\* return resultado, factor, jugador, crupier, mazo
Devolver(res, f) ==
    /\ resultado' = res
    /\ factor' = f
    /\ pc' = "return"

\* line 88: mazo = ensure_mazo(mazo, n_barajas, reshuffle_threshold)
Asegurar ==
    /\ pc = "ensure"
    /\ \E m \in ensure_mazo(mazo, args.n_barajas, args.reshuffle_threshold) :
          /\ mazo' = m
          /\ mazo_ronda' = m
    /\ jugador' = <<>>
    /\ crupier' = <<>>
    /\ apuesta_factor' = 2
    /\ doubled' = FALSE
    /\ resultado' = "none"
    /\ factor' = 0
    /\ pc' = "deal"
    /\ UNCHANGED <<args, dinero, dinero_antes, current_bet, bet_used, rondas,
                   evolucion, mano, puntos>>

\* lines 90-91: jugador = [tomar_carta, tomar_carta]; crupier = [tomar_carta,
\* tomar_carta], one tomar_carta per step
Repartir ==
    /\ pc = "deal"
    /\ IF mazo = <<>>
       THEN IndexError
       ELSE /\ mazo' = Resto(mazo)
            /\ IF Len(jugador) < 2
               THEN /\ jugador' = Append(jugador, Carta(mazo))
                    /\ crupier' = crupier
                    /\ pc' = "deal"
               ELSE /\ crupier' = Append(crupier, Carta(mazo))
                    /\ jugador' = jugador
                    /\ pc' = IF Len(crupier) = 1 THEN "natural" ELSE "deal"
            /\ UNCHANGED <<apuesta_factor, doubled, resultado, factor>>
    /\ UNCHANGED <<args, dinero, dinero_antes, current_bet, bet_used, rondas,
                   evolucion, mazo_ronda, mano, puntos>>

\* a fault: the player's natural is looked at before the push
ResultadoNatural_sin_empate(j, c) ==
    IF es_blackjack(j) THEN <<"player_blackjack", 3>>
    ELSE <<"dealer", -2>>

\* a fault: the player's natural is tagged as an ordinary win paid 1.5
ResultadoNatural_etiqueta(j, c) ==
    IF es_blackjack(j) /\ es_blackjack(c) THEN <<"push", 0>>
    ELSE IF es_blackjack(j) THEN <<"player", 3>>
    ELSE <<"dealer", -2>>

\* lines 98-103: the result when some hand is a natural
ResultadoNatural(j, c) ==
    IF es_blackjack(j) /\ es_blackjack(c) THEN <<"push", 0>>
    ELSE IF es_blackjack(j) THEN <<"player_blackjack", 3>>
    ELSE <<"dealer", -2>>

\* lines 96-103: early naturals
Natural ==
    /\ pc = "natural"
    /\ IF es_blackjack(jugador) \/ es_blackjack(crupier)
       THEN Devolver(ResultadoNatural(jugador, crupier)[1],
                     ResultadoNatural(jugador, crupier)[2])
       ELSE /\ pc' = "prehit"
            /\ UNCHANGED <<resultado, factor>>
    /\ UNCHANGED <<args, mazo, jugador, crupier, apuesta_factor, doubled,
                   dinero, dinero_antes, current_bet, bet_used, rondas,
                   evolucion, mazo_ronda, mano, puntos>>

\* a fault: the comparison of the total slips from == to >
Rendirse_mayor(pj, upcard) == args.allow_surrender /\ pj > 16 /\ upcard = 10

\* line 110: the surrender heuristic (automated is True in every call)
Rendirse(pj, upcard) == args.allow_surrender /\ pj = 16 /\ upcard = 10

\* a fault: 11 is left out of the totals that double
Doblar_sin_once(pj) == args.allow_double /\ pj \in {9, 10}

\* a fault: a total of 12 doubles too
Doblar_con_doce(pj) == args.allow_double /\ pj \in {9, 10, 11, 12}

\* line 116: the double heuristic
Doblar(pj) == args.allow_double /\ pj \in {9, 10, 11}

\* lines 105-125: surrender and double decisions
PreHit ==
    /\ pc = "prehit"
    /\ LET pj == contar_puntos(jugador).total
           upcard == crupier[1]
       IN  IF Rendirse(pj, upcard)
           THEN /\ Devolver("surrender", -1)
                /\ UNCHANGED <<mazo, jugador, apuesta_factor, doubled>>
           ELSE IF Doblar(pj)
                THEN IF mazo = <<>>
                     THEN /\ pc' = "IndexError"
                          /\ apuesta_factor' = 4
                          /\ UNCHANGED <<mazo, jugador, doubled, resultado,
                                         factor>>
                     ELSE /\ apuesta_factor' = 4
                          /\ mazo' = Resto(mazo)
                          /\ jugador' = Append(jugador, Carta(mazo))
                          /\ doubled' = TRUE
                          /\ IF contar_puntos(jugador').total > 21
                             THEN Devolver("dealer", -1 * apuesta_factor')
                             ELSE /\ pc' = "dealer"
                                  /\ UNCHANGED <<resultado, factor>>
                ELSE /\ pc' = "player"
                     /\ UNCHANGED <<mazo, jugador, apuesta_factor, doubled,
                                    resultado, factor>>
    /\ UNCHANGED <<args, crupier, dinero, dinero_antes, current_bet, bet_used,
                   rondas, evolucion, mazo_ronda, mano, puntos>>

\* a fault: the player also hits on the limit itself
JugadorPide_en_el_limite(pj) == pj <= args.limite_jugador

\* line 130: the player takes a card
JugadorPide(pj) == pj < args.limite_jugador

\* lines 127-137: one iteration of the player's hit loop (not doubled)
Pedir ==
    /\ pc = "player"
    /\ IF JugadorPide(contar_puntos(jugador).total)
       THEN IF mazo = <<>>
            THEN IndexError
            ELSE /\ mazo' = Resto(mazo)
                 /\ jugador' = Append(jugador, Carta(mazo))
                 /\ IF contar_puntos(jugador').total > 21
                    THEN Devolver("dealer", -1 * apuesta_factor)
                    ELSE /\ pc' = "player"
                         /\ UNCHANGED <<resultado, factor>>
                 /\ UNCHANGED <<crupier, apuesta_factor, doubled>>
       ELSE /\ pc' = "dealer"
            /\ UNCHANGED <<mazo, jugador, crupier, apuesta_factor, doubled,
                           resultado, factor>>
    /\ UNCHANGED <<args, dinero, dinero_antes, current_bet, bet_used, rondas,
                   evolucion, mazo_ronda, mano, puntos>>

\* a fault: the soft 17 is never hit
CrupierPide_sin_suave(pc_, es_suave_c) == pc_ < 17

\* lines 145-150: the dealer takes a card
CrupierPide(pc_, es_suave_c) ==
    \/ pc_ < 17
    \/ (pc_ = 17 /\ es_suave_c /\ ~args.stand_on_soft17)

\* lines 139-151: one iteration of the dealer's loop
Crupier ==
    /\ pc = "dealer"
    /\ LET pj == contar_puntos(jugador).total
           c == contar_puntos(crupier)
       IN  IF pj <= 21 /\ CrupierPide(c.total, c.es_suave)
           THEN IF mazo = <<>>
                THEN IndexError
                ELSE /\ mazo' = Resto(mazo)
                     /\ crupier' = Append(crupier, Carta(mazo))
                     /\ pc' = "dealer"
                     /\ UNCHANGED <<jugador, apuesta_factor, doubled,
                                    resultado, factor>>
           ELSE /\ pc' = "settle"
                /\ UNCHANGED <<mazo, jugador, crupier, apuesta_factor,
                               doubled, resultado, factor>>
    /\ UNCHANGED <<args, dinero, dinero_antes, current_bet, bet_used, rondas,
                   evolucion, mazo_ronda, mano, puntos>>

\* a fault: the dealer going over 21 is not looked at
Comparacion_sin_pasarse(pj, pc_, apuesta) ==
    IF pj > 21 THEN <<"dealer", -1 * apuesta>>
    ELSE IF pj > pc_ THEN <<"player", 1 * apuesta>>
    ELSE IF pc_ > pj THEN <<"dealer", -1 * apuesta>>
    ELSE <<"push", 0>>

\* lines 153-164: the final comparison; <<outcome, twice the factor>>
Comparacion(pj, pc_, apuesta) ==
    IF pj > 21 THEN <<"dealer", -1 * apuesta>>
    ELSE IF pc_ > 21 THEN <<"player", 1 * apuesta>>
    ELSE IF pj > pc_ THEN <<"player", 1 * apuesta>>
    ELSE IF pc_ > pj THEN <<"dealer", -1 * apuesta>>
    ELSE <<"push", 0>>

Comparar ==
    /\ pc = "settle"
    /\ LET r == Comparacion(contar_puntos(jugador).total,
                            contar_puntos(crupier).total, apuesta_factor)
       IN  Devolver(r[1], r[2])
    /\ UNCHANGED <<args, mazo, jugador, crupier, apuesta_factor, doubled,
                   dinero, dinero_antes, current_bet, bet_used, rondas,
                   evolucion, mazo_ronda, mano, puntos>>

(***************************************************************************)
(* Betting session: ruina_del_jugador and apuesta_con_opciones.            *)
(***************************************************************************)
\* lines 177-182: the bet apuesta_con_opciones uses (last_bet is never None
\* in the call of ruina_del_jugador)
Apuesta(betting_strategy, dinero_apostado, last_bet) ==
    IF betting_strategy = "martingale" THEN last_bet ELSE dinero_apostado

\* lines 219-220: never bet more than the bankroll
Limitar(bet, d) == IF bet > d THEN d ELSE bet

\* line 217: the loop condition
Sigue == dinero > 0 /\ rondas < args.max_rondas

\* lines 217-226 and 177-182: loop test, clamp of the bet, call of
\* apuesta_con_opciones up to its call of jugar_mano_basica
Iterar ==
    /\ pc = "loop"
    /\ Sigue
    /\ current_bet' = Limitar(current_bet, dinero)
    /\ dinero_antes' = dinero
    /\ bet_used' = Apuesta(args.betting_strategy, current_bet', current_bet')
    /\ pc' = "ensure"
    /\ UNCHANGED <<args, mazo, jugador, crupier, apuesta_factor, doubled,
                   resultado, factor, dinero, rondas, evolucion, mazo_ronda,
                   mano, puntos>>

\* line 236: return evolucion
Terminar ==
    /\ pc = "loop"
    /\ ~Sigue
    /\ pc' = "done"
    /\ UNCHANGED <<args, mazo, jugador, crupier, apuesta_factor, doubled,
                   resultado, factor, dinero, dinero_antes, current_bet,
                   bet_used, rondas, evolucion, mazo_ronda, mano, puntos>>

\* a fault: every loss costs the whole bet
Pago_pierde_todo(d, bet, f) ==
    IF f > 0 THEN d + (bet * f) \div 2
    ELSE IF f < 0 THEN d - bet
    ELSE d

\* lines 190-197: dinero after the round (f is twice the payout factor)
Pago(d, bet, f) ==
    IF f > 0 THEN d + (bet * f) \div 2
    ELSE IF f < 0 THEN d + (bet * f) \div 2
    ELSE d

\* a fault: the doubled bet is not capped by the bankroll
Ajuste_sin_tope(betting_strategy, bet, d, d_antes) ==
    IF betting_strategy = "martingale"
    THEN IF d < d_antes THEN bet * 2 ELSE args.dinero_apostado * Escala
    ELSE bet

\* a fault: the fixed strategy goes back to the base bet after every round
Ajuste_repone_base(betting_strategy, bet, d, d_antes) ==
    IF betting_strategy = "martingale"
    THEN IF d < d_antes
         THEN (IF bet * 2 < d THEN bet * 2 ELSE d)
         ELSE base_bet
    ELSE base_bet

\* lines 230-235: the bet of the next round
Ajuste(betting_strategy, bet, d, d_antes) ==
    IF betting_strategy = "martingale"
    THEN IF d < d_antes
         THEN (IF bet * 2 < d THEN bet * 2 ELSE d)
         ELSE base_bet
    ELSE bet

\* lines 190-199 and 227-235: the round returned; pay, record, adjust
Cobrar ==
    /\ pc = "return"
    /\ dinero' = Pago(dinero, bet_used, factor)
    /\ evolucion' = Append(evolucion, dinero')
    /\ rondas' = rondas + 1
    /\ current_bet' = Ajuste(args.betting_strategy, current_bet, dinero',
                             dinero_antes)
    /\ pc' = "loop"
    /\ UNCHANGED <<args, mazo, jugador, crupier, apuesta_factor, doubled,
                   resultado, factor, dinero_antes, bet_used, mazo_ronda,
                   mano, puntos>>

Next ==
    \/ Iterar
    \/ Terminar
    \/ Asegurar
    \/ Repartir
    \/ Natural
    \/ PreHit
    \/ Pedir
    \/ Crupier
    \/ Comparar
    \/ Cobrar

(***************************************************************************)
(* Initial states: lines 210-215 of ruina_del_jugador, for the arguments   *)
(* of each specification.                                                  *)
(***************************************************************************)
Argumentos(ns, lims, s17s, dobles, rends, estrs, umbrales, rmax, dins, aps) ==
    { a \in [ n_barajas : ns, limite_jugador : lims,
              stand_on_soft17 : s17s, allow_double : dobles,
              allow_surrender : rends, betting_strategy : estrs,
              reshuffle_threshold : umbrales, max_rondas : rmax,
              dinero_total : dins, dinero_apostado : aps ] :
        a.dinero_apostado <= a.dinero_total }

\* mazos: the outcomes of crear_mazo_partida(n_barajas) to start from
Inicio(argumentos, mazos) ==
    /\ mazo \in mazos
    /\ args \in { a \in argumentos :
                    Len(mazo) = Len(crear_mazo) * a.n_barajas }
    /\ dinero = args.dinero_total * Escala
    /\ evolucion = <<dinero>>
    /\ rondas = 0
    /\ current_bet = base_bet
    /\ dinero_antes = dinero
    /\ bet_used = 0
    /\ jugador = <<>>
    /\ crupier = <<>>
    /\ apuesta_factor = 2
    /\ doubled = FALSE
    /\ resultado = "none"
    /\ factor = 0
    /\ mazo_ronda = mazo
    /\ pc = "loop"
    /\ mano = <<>>
    /\ puntos = contar_puntos(<<>>)

\* betting sessions: both strategies, every bankroll and bet
InitSesion ==
    Inicio(Argumentos({1}, {17}, {TRUE}, BOOLEAN, BOOLEAN,
                      {"fixed", "martingale"}, {15}, {MaxRondas},
                      1..MaxDinero, 1..MaxDinero),
           crear_mazo_partida(1))

SpecSesion == InitSesion /\ [][Next]_vars

\* rounds on a well filled shoe: every rule toggle, two stand limits
InitMano ==
    Inicio(Argumentos({1}, {12, 17}, BOOLEAN, BOOLEAN, BOOLEAN, {"fixed"},
                      {15}, {MaxRondas}, {MaxDinero}, {1}),
           crear_mazo_partida(1))

SpecMano == InitMano /\ [][Next]_vars

\* long sessions: on a shoe that is reshuffled late or never, and with the
\* default threshold on the shoe that comes out nearly sorted
InitZapato ==
    \/ Inicio(Argumentos({1}, {17}, {TRUE}, {FALSE}, BOOLEAN, {"fixed"},
                         0..MaxUmbral, {RondasLargas}, {RondasLargas}, {1}),
              crear_mazo_partida(1))
    \/ Inicio(Argumentos({1}, {21}, {TRUE}, {FALSE}, {FALSE}, {"fixed"},
                         {15}, {RondasLargas}, {RondasLargas}, {1}),
              {MazoDescendente})

SpecZapato == InitZapato /\ [][Next]_vars

\* the rounds of SpecMano under the scheduling of a sequential program: a
\* step that can be taken is taken
SpecManoJusta == SpecMano /\ WF_vars(Next)

\* a reshuffle_threshold that the shoe MazoDescendente, whose rounds take
\* four cards each, meets exactly at the start of the round before the last
\* and falls below at the start of the last
UmbralRebaraja == Len(crear_mazo) - 4 * (MaxRondas - 2)

\* sessions that start on the shoe MazoDescendente with that threshold: the
\* round before the last keeps the shoe, the last replaces it; and sessions
\* on any shoe with the default threshold, which never replace it
InitRebaraja ==
    \/ Inicio(Argumentos({1}, {17}, {TRUE}, BOOLEAN, BOOLEAN, {"fixed"},
                         {15, UmbralRebaraja}, {MaxRondas}, {MaxRondas}, {1}),
              {MazoDescendente})
    \/ Inicio(Argumentos({1}, {17}, {TRUE}, {TRUE}, {TRUE}, {"fixed"},
                         {15}, {MaxRondas}, {MaxRondas}, {1}),
              crear_mazo_partida(1))

SpecRebaraja == InitRebaraja /\ [][Next]_vars

\* sessions called with arguments of every kind, the invalid ones included:
\* no deck, a stand limit outside 2..21, a bankroll or a bet that is not
\* positive, a bet above the bankroll, no round
InitInvalida ==
    Inicio([ n_barajas : {0, 1}, limite_jugador : {1, 17, 22},
             stand_on_soft17 : {TRUE}, allow_double : {TRUE},
             allow_surrender : {TRUE}, betting_strategy : {"fixed"},
             reshuffle_threshold : {15}, max_rondas : {0, MaxRondas - 1},
             dinero_total : -1..MaxDinero,
             dinero_apostado : -1..(MaxDinero + 1) ],
           crear_mazo_partida(0) \cup crear_mazo_partida(1))

SpecInvalida == InitInvalida /\ [][Next]_vars

(***************************************************************************)
(* The interactive round: jugar_interactivo, lines 245-323.  The answers   *)
(* typed by the player are inputs; factor holds twice the factor that      *)
(* comparar_manos_interactivo returns at line 307.                         *)
(***************************************************************************)
\* what the player may type: yes, no/stand, hit, anything else
Respuestas == {"s", "n"}
Acciones == {"h", "s", "x"}

\* the variables the interactive round does not have
sesion == <<dinero, dinero_antes, current_bet, bet_used, rondas, evolucion,
            mano, puntos, apuesta_factor>>

\* lines 247-248: mazo = crear_mazo_partida(n_barajas); ensure_mazo(...)
ICrear ==
    /\ pc = "i_crear"
    /\ \E m0 \in crear_mazo_partida(args.n_barajas) :
         \E m \in ensure_mazo(m0, args.n_barajas, args.reshuffle_threshold) :
            /\ mazo' = m
            /\ mazo_ronda' = m
    /\ pc' = "i_repartir"
    /\ UNCHANGED <<args, jugador, crupier, doubled, resultado, factor>>
    /\ UNCHANGED sesion

\* lines 249-250: two cards to the player, then two to the dealer
IRepartir ==
    /\ pc = "i_repartir"
    /\ IF mazo = <<>>
       THEN /\ pc' = "IndexError"
            /\ UNCHANGED <<mazo, jugador, crupier>>
       ELSE /\ mazo' = Resto(mazo)
            /\ IF Len(jugador) < 2
               THEN /\ jugador' = Append(jugador, Carta(mazo))
                    /\ crupier' = crupier
                    /\ pc' = "i_repartir"
               ELSE /\ crupier' = Append(crupier, Carta(mazo))
                    /\ jugador' = jugador
                    /\ pc' = IF Len(crupier) = 1 THEN "i_rendirse"
                                                 ELSE "i_repartir"
    /\ UNCHANGED <<args, doubled, resultado, factor, mazo_ronda>>
    /\ UNCHANGED sesion

\* lines 257-261: the surrender question; 'surrender' is returned with the
\* hands and without a factor
IRendirse ==
    /\ pc = "i_rendirse"
    /\ IF args.allow_surrender
       THEN \E respuesta \in Respuestas :
              IF respuesta = "s"
              THEN /\ resultado' = "surrender"
                   /\ pc' = "i_return"
              ELSE /\ resultado' = resultado
                   /\ pc' = "i_doblar"
       ELSE /\ resultado' = resultado
            /\ pc' = "i_doblar"
    /\ UNCHANGED <<args, mazo, jugador, crupier, doubled, factor, mazo_ronda>>
    /\ UNCHANGED sesion

\* lines 263-270: the double question; a doubled player gets one card and
\* skips the hit loop
IDoblar ==
    /\ pc = "i_doblar"
    /\ IF args.allow_double
       THEN \E respuesta \in Respuestas :
              IF respuesta = "s"
              THEN IF mazo = <<>>
                   THEN /\ pc' = "IndexError"
                        /\ doubled' = TRUE
                        /\ UNCHANGED <<mazo, jugador>>
                   ELSE /\ doubled' = TRUE
                        /\ mazo' = Resto(mazo)
                        /\ jugador' = Append(jugador, Carta(mazo))
                        /\ pc' = "i_crupier"
              ELSE /\ pc' = "i_pedir"
                   /\ UNCHANGED <<mazo, jugador, doubled>>
       ELSE /\ pc' = "i_pedir"
            /\ UNCHANGED <<mazo, jugador, doubled>>
    /\ UNCHANGED <<args, crupier, resultado, factor, mazo_ronda>>
    /\ UNCHANGED sesion

\* lines 272-287: one iteration of the hit-or-stand loop
IPedir ==
    /\ pc = "i_pedir"
    /\ IF contar_puntos(jugador).total > 21
       THEN /\ pc' = "i_crupier"
            /\ UNCHANGED <<mazo, jugador>>
       ELSE \E accion \in Acciones :
              IF accion = "h"
              THEN IF mazo = <<>>
                   THEN /\ pc' = "IndexError"
                        /\ UNCHANGED <<mazo, jugador>>
                   ELSE /\ mazo' = Resto(mazo)
                        /\ jugador' = Append(jugador, Carta(mazo))
                        /\ pc' = "i_pedir"
              ELSE IF accion = "s"
              THEN /\ pc' = "i_crupier"
                   /\ UNCHANGED <<mazo, jugador>>
              ELSE /\ pc' = "i_pedir"
                   /\ UNCHANGED <<mazo, jugador>>
    /\ UNCHANGED <<args, crupier, doubled, resultado, factor, mazo_ronda>>
    /\ UNCHANGED sesion

\* lines 294-303: the dealer takes a card
ICrupierPide(pc_, es_suave_c) ==
    \/ pc_ < 17
    \/ (pc_ = 17 /\ es_suave_c /\ ~args.stand_on_soft17)

\* lines 291-304: one iteration of the dealer's loop
ICrupier ==
    /\ pc = "i_crupier"
    /\ LET pj_final == contar_puntos(jugador).total
           c == contar_puntos(crupier)
       IN  IF pj_final <= 21 /\ ICrupierPide(c.total, c.es_suave)
           THEN IF mazo = <<>>
                THEN /\ pc' = "IndexError"
                     /\ UNCHANGED <<mazo, crupier>>
                ELSE /\ mazo' = Resto(mazo)
                     /\ crupier' = Append(crupier, Carta(mazo))
                     /\ pc' = "i_crupier"
           ELSE /\ pc' = "i_comparar"
                /\ UNCHANGED <<mazo, crupier>>
    /\ UNCHANGED <<args, jugador, doubled, resultado, factor, mazo_ronda>>
    /\ UNCHANGED sesion

\* lines 326-343: <<outcome, twice the factor>>
comparar_manos_interactivo(j, c) ==
    LET pj == contar_puntos(j).total
        pc_ == contar_puntos(c).total
        j_black == es_blackjack(j)
        c_black == es_blackjack(c)
    IN  IF pj > 21 THEN <<"dealer", -2>>
        ELSE IF pc_ > 21 THEN <<"player", 2>>
        ELSE IF j_black /\ ~c_black THEN <<"player_blackjack", 3>>
        ELSE IF c_black /\ ~j_black THEN <<"dealer", -2>>
        ELSE IF pj > pc_ THEN <<"player", 2>>
        ELSE IF pc_ > pj THEN <<"dealer", -2>>
        ELSE <<"push", 0>>

\* lines 307-323: resultado, factor = comparar_manos_interactivo(...)
IComparar ==
    /\ pc = "i_comparar"
    /\ resultado' = comparar_manos_interactivo(jugador, crupier)[1]
    /\ factor' = comparar_manos_interactivo(jugador, crupier)[2]
    /\ pc' = "i_return"
    /\ UNCHANGED <<args, mazo, jugador, crupier, doubled, mazo_ronda>>
    /\ UNCHANGED sesion

NextInteractivo ==
    \/ ICrear
    \/ IRepartir
    \/ IRendirse
    \/ IDoblar
    \/ IPedir
    \/ ICrupier
    \/ IComparar

\* line 245: the parameters of jugar_interactivo; line 354 calls it with one
\* deck and the defaults
InitInteractivo ==
    /\ args \in [ n_barajas : {1}, stand_on_soft17 : BOOLEAN,
                  allow_double : BOOLEAN, allow_surrender : BOOLEAN,
                  reshuffle_threshold : {15} ]
    /\ mazo = <<>>
    /\ mazo_ronda = <<>>
    /\ jugador = <<>>
    /\ crupier = <<>>
    /\ doubled = FALSE
    /\ resultado = "none"
    /\ factor = 0
    /\ apuesta_factor = 2
    /\ dinero = 0
    /\ dinero_antes = 0
    /\ current_bet = 0
    /\ bet_used = 0
    /\ rondas = 0
    /\ evolucion = <<>>
    /\ mano = <<>>
    /\ puntos = contar_puntos(<<>>)
    /\ pc = "i_crear"

SpecInteractivo == InitInteractivo /\ [][NextInteractivo]_vars

(***************************************************************************)
(* The hand evaluator on its own: contar_puntos applied to every hand of   *)
(* at most MaxMano cards.                                                  *)
(***************************************************************************)
Manos == UNION { [1..n -> 1..10] : n \in 0..MaxMano }

InitPuntos ==
    /\ mano \in Manos
    /\ puntos = contar_puntos(<<>>)
    /\ pc = "puntos"
    /\ args = [ n_barajas |-> 1, limite_jugador |-> 17,
                stand_on_soft17 |-> TRUE, allow_double |-> TRUE,
                allow_surrender |-> TRUE, betting_strategy |-> "fixed",
                reshuffle_threshold |-> 15, max_rondas |-> 0,
                dinero_total |-> 0, dinero_apostado |-> 0 ]
    /\ mazo = <<>>
    /\ mazo_ronda = <<>>
    /\ jugador = <<>>
    /\ crupier = <<>>
    /\ apuesta_factor = 2
    /\ doubled = FALSE
    /\ resultado = "none"
    /\ factor = 0
    /\ dinero = 0
    /\ dinero_antes = 0
    /\ current_bet = 0
    /\ bet_used = 0
    /\ rondas = 0
    /\ evolucion = <<>>

\* total, es_suave = contar_puntos(mano)
ContarPuntos ==
    /\ pc = "puntos"
    /\ puntos' = contar_puntos(mano)
    /\ pc' = "contado"
    /\ UNCHANGED <<args, mazo, jugador, crupier, apuesta_factor, doubled,
                   resultado, factor, dinero, dinero_antes, current_bet,
                   bet_used, rondas, evolucion, mazo_ronda, mano>>

NextPuntos == ContarPuntos

SpecPuntos == InitPuntos /\ [][NextPuntos]_vars

(***************************************************************************)
(* Properties.  Helpers of the statements, written from the rules of the   *)
(* game and not from the evaluator above.                                  *)
(***************************************************************************)
\* the two cards a hand was dealt
Inicial(h) == SubSeq(h, 1, 2)

\* a natural: an ace and a ten-valued card
EsNatural(h) == Len(h) = 2 /\ {h[1], h[2]} = {1, 10}

\* sum of a hand with every ace counted as 1
RECURSIVE SumaDura(_)
SumaDura(h) == IF h = <<>> THEN 0 ELSE h[1] + SumaDura(Tail(h))

\* the reference total: the largest hard sum + 10 k, k at most the number of
\* aces, that is <= 21 when the hard sum is <= 21; otherwise the hard sum
AsesOnce(h) ==
    LET ases == Cardinality({ i \in DOMAIN h : h[i] = 1 })
        ks == { k \in 0..ases : SumaDura(h) + 10 * k <= 21 }
    IN  IF SumaDura(h) <= 21
        THEN CHOOSE k \in ks : \A k2 \in ks : k2 <= k
        ELSE 0

TotalReferencia(h) == SumaDura(h) + 10 * AsesOnce(h)

\* both hands are dealt and the check for naturals is behind
Repartida ==
    /\ Len(jugador) >= 2
    /\ Len(crupier) >= 2
    /\ pc \notin {"deal", "natural"}

HayNatural == EsNatural(Inicial(jugador)) \/ EsNatural(Inicial(crupier))

\* jugar_mano_basica has returned (the hands stay until the next round)
Devuelta == resultado # "none" /\ pc \in {"return", "loop", "ensure", "done"}

\* the round went past the decisions of surrender and double
TrasDecidir == Repartida /\ pc \notin {"prehit", "IndexError"}

\* the final comparison of section 4.3, for the multiplier m (1 or 2);
\* <<outcome, twice the factor>>
TablaFinal(pj, pcr, m) ==
    IF pcr > 21 \/ pj > pcr THEN <<"player", 2 * m>>
    ELSE IF pcr > pj THEN <<"dealer", -2 * m>>
    ELSE <<"push", 0>>

\* C4: contar_puntos returns the reference total, and the soft flag is true
\* iff an ace still counts 11 in it; (A, A) is 12 soft; the total is <= 21
\* whenever the hard sum is.
C4_ContarPuntos ==
    pc = "contado" =>
        /\ puntos.total = TotalReferencia(mano)
        /\ puntos.es_suave = (AsesOnce(mano) > 0)
        /\ (mano = <<1, 1>> => puntos = [total |-> 12, es_suave |-> TRUE])
        /\ (SumaDura(mano) <= 21 => puntos.total <= 21)

\* a hand where one ace is reduced and another still counts 11
C4_Testigo ==
    /\ pc = "contado"
    /\ mano = <<1, 1, 9>>
    /\ puntos = [total |-> 21, es_suave |-> TRUE]

\* C1: every entry of the bankroll history is >= 0.
C1_BancaNoNegativa == \A i \in DOMAIN evolucion : evolucion[i] >= 0

\* C2: no tomar_carta of a round is made on an empty shoe.
C2_MazoNuncaVacio == pc # "IndexError"

\* C3: a natural in either initial hand resolves the round at once: no card
\* beyond the four dealt, both naturals push with factor 0, the player's
\* alone pays 1.5, the dealer's alone costs 1.
C3_Naturales ==
    (Repartida /\ HayNatural) =>
        /\ Devuelta
        /\ Len(jugador) = 2
        /\ Len(crupier) = 2
        /\ mazo = SubSeq(mazo_ronda, 1, Len(mazo_ronda) - 4)
        /\ ~doubled
        /\ <<resultado, factor>> =
              IF EsNatural(jugador) /\ EsNatural(crupier) THEN <<"push", 0>>
              ELSE IF EsNatural(jugador) THEN <<"player_blackjack", 3>>
              ELSE <<"dealer", -2>>

\* both hands natural, with double and surrender allowed
C3_Testigo ==
    /\ pc = "return"
    /\ EsNatural(jugador)
    /\ EsNatural(crupier)
    /\ args.allow_double
    /\ args.allow_surrender
    /\ resultado = "push"

\* C5: a round that reaches the final comparison (no natural, no surrender,
\* player not over 21) returns what the totals and the multiplier decide;
\* a doubled loss is exactly -2 and a doubled push 0.
C5_ComparacionFinal ==
    (Devuelta /\ ~HayNatural /\ resultado # "surrender"
        /\ TotalReferencia(jugador) <= 21) =>
        /\ <<resultado, factor>> =
              TablaFinal(TotalReferencia(jugador), TotalReferencia(crupier),
                         IF doubled THEN 2 ELSE 1)
        /\ (doubled /\ resultado = "dealer" => factor = -4)
        /\ (doubled /\ resultado = "push" => factor = 0)

\* a doubled hand that loses to the dealer without going over 21
C5_Testigo ==
    /\ pc = "return"
    /\ doubled
    /\ TotalReferencia(jugador) <= 21
    /\ TotalReferencia(crupier) <= 21
    /\ resultado = "dealer"
    /\ factor = -4

\* C6: with surrender allowed and no natural, 16 against a dealer's first
\* card of value 10 ends in ('surrender', -0.5) with no further card; and
\* every surrender has factor -0.5, two-card hands and no double.
C6_Rendicion ==
    /\ (TrasDecidir /\ args.allow_surrender /\ ~HayNatural
          /\ TotalReferencia(Inicial(jugador)) = 16 /\ crupier[1] = 10) =>
          /\ Devuelta
          /\ resultado = "surrender"
          /\ factor = -1
          /\ mazo = SubSeq(mazo_ronda, 1, Len(mazo_ronda) - 4)
    /\ resultado = "surrender" =>
          /\ factor = -1
          /\ Len(jugador) = 2
          /\ Len(crupier) = 2
          /\ ~doubled
          /\ apuesta_factor = 2

\* a surrender on a soft 16, while double is allowed too
C6_Testigo ==
    /\ pc = "return"
    /\ resultado = "surrender"
    /\ 1 \in {jugador[1], jugador[2]}
    /\ args.allow_double

\* C7: with double allowed, no natural and no surrender, an initial total
\* of 9, 10 or 11 takes exactly one more card and no hit loop, and the
\* factor is twice that of the same comparison undoubled; a round with any
\* other initial total never has a factor of magnitude 2.
C7_Doblar ==
    /\ (TrasDecidir /\ args.allow_double /\ ~HayNatural
          /\ resultado # "surrender"
          /\ TotalReferencia(Inicial(jugador)) \in {9, 10, 11}) =>
          /\ pc # "player"
          /\ doubled
          /\ Len(jugador) = 3
          /\ Devuelta =>
                /\ factor = 2 * TablaFinal(TotalReferencia(jugador),
                                           TotalReferencia(crupier), 1)[2]
                /\ factor \in {-4, 0, 4}
    /\ (Devuelta /\ TotalReferencia(Inicial(jugador)) \notin {9, 10, 11}) =>
          factor \notin {-4, 4}

\* a doubled hand that stays below the stand limit and still takes no hit
C7_Testigo ==
    /\ pc = "return"
    /\ doubled
    /\ Len(jugador) = 3
    /\ TotalReferencia(jugador) < args.limite_jugador
    /\ factor = 4

\* C8: under martingale, a round that lowers the bankroll sets the next bet
\* to min(2 * bet used, new bankroll); any other round resets it to the
\* base bet.
C8_Martingala ==
    [][ (pc = "return" /\ args.betting_strategy = "martingale") =>
          IF dinero' < dinero
          THEN current_bet' = (IF 2 * bet_used < dinero' THEN 2 * bet_used
                               ELSE dinero')
          ELSE current_bet' = args.dinero_apostado * (2 ^ args.max_rondas)
      ]_vars

\* after a loss the bet was doubled and is below the bankroll
C8_Testigo ==
    /\ pc = "loop"
    /\ args.betting_strategy = "martingale"
    /\ rondas > 0
    /\ dinero < dinero_antes
    /\ current_bet = 2 * bet_used
    /\ current_bet < dinero

\* C9: the session stops exactly at bankroll 0 or at max_rondas rounds: the
\* history has rounds + 1 entries, rounds <= max_rondas, and when fewer
\* rounds were played the last entry is 0 and no earlier one is.
C9_Parada ==
    pc = "done" =>
        /\ Len(evolucion) = rondas + 1
        /\ rondas <= args.max_rondas
        /\ rondas < args.max_rondas =>
              /\ evolucion[Len(evolucion)] = 0
              /\ \A i \in 1..(Len(evolucion) - 1) : evolucion[i] # 0

\* C10: the bet of a round is at most the bankroll at its start, and the
\* bankroll after it is the bankroll before plus bet times factor.
C10_Pago ==
    /\ pc \in {"ensure", "deal", "natural", "prehit", "player", "dealer",
               "settle", "return", "IndexError"} =>
          /\ bet_used <= dinero_antes
          /\ bet_used = current_bet
          /\ dinero = dinero_antes
    /\ (pc \in {"loop", "done"} /\ rondas > 0) =>
          /\ Len(evolucion) = rondas + 1
          /\ dinero = evolucion[rondas + 1]
          /\ dinero_antes = evolucion[rondas]
          /\ 2 * dinero = 2 * dinero_antes + bet_used * factor

\* a round played with a bet clamped to a bankroll below the base bet,
\* after a surrender that cost half a bet
C10_Testigo ==
    /\ pc = "loop"
    /\ rondas > 1
    /\ bet_used = dinero_antes
    /\ bet_used < args.dinero_apostado * (2 ^ args.max_rondas)
    /\ bet_used % (2 ^ args.max_rondas) # 0
    /\ dinero > dinero_antes

\* the pairs (outcome, twice the factor) of section 3
Resultados ==
    { <<"player", 2>>, <<"player", 4>>, <<"dealer", -2>>, <<"dealer", -4>>,
      <<"push", 0>>, <<"player_blackjack", 3>>, <<"surrender", -1>> }

\* C11: a round that does not fail on an empty shoe terminates, and what it
\* returns is one of ('player', 1), ('player', 2), ('dealer', -1),
\* ('dealer', -2), ('push', 0), ('player_blackjack', 1.5), ('surrender', -0.5).
C11_UnResultado ==
    /\ [](Devuelta => <<resultado, factor>> \in Resultados)
    /\ [](pc \notin {"return", "loop", "done"} => resultado = "none" \/ pc = "ensure")
    /\ (pc = "ensure" ~> pc \in {"return", "IndexError"})

\* a doubled win: the pair ('player', 2)
C11_Testigo ==
    /\ pc = "return"
    /\ <<resultado, factor>> = <<"player", 4>>

\* the configurations section 7 of the specification calls invalid
ConfiguracionInvalida(a) ==
    \/ a.dinero_total <= 0
    \/ a.dinero_apostado <= 0
    \/ a.dinero_apostado > a.dinero_total
    \/ a.limite_jugador < 2
    \/ a.limite_jugador > 21
    \/ a.n_barajas < 1
    \/ a.max_rondas < 1

\* C12: an invalid configuration is rejected with a configuration error
\* before any round is played: the session neither starts a round nor
\* returns a history, no card is drawn and the history keeps its initial
\* entry only.
C12_Rechazo ==
    ConfiguracionInvalida(args) =>
        /\ pc \in {"loop", "ConfigurationError"}
        /\ jugador = <<>> /\ crupier = <<>>
        /\ mazo = mazo_ronda
        /\ evolucion = <<args.dinero_total * Escala>>

\* C13: the interactive round resolves as the round engine does for the same
\* cards and decisions: a natural among the four initial cards is resolved
\* at once, by the engine's table of naturals and with no further card; a
\* surrender gives 'surrender'; otherwise the result is the engine's final
\* comparison, with factor magnitude 2 when the player doubled.
C13_Equivalencia ==
    pc = "i_return" =>
        IF es_blackjack(Inicial(jugador)) \/ es_blackjack(Inicial(crupier))
        THEN /\ Len(jugador) = 2
             /\ Len(crupier) = 2
             /\ <<resultado, factor>> = ResultadoNatural(jugador, crupier)
        ELSE IF resultado = "surrender"
        THEN Len(jugador) = 2 /\ Len(crupier) = 2
        ELSE <<resultado, factor>> =
                Comparacion(contar_puntos(jugador).total,
                            contar_puntos(crupier).total,
                            IF doubled THEN 4 ELSE 2)

\* the dealer's rule of section 4.2, on a hand
DebePedir(h) ==
    \/ contar_puntos(h).total < 17
    \/ /\ contar_puntos(h).total = 17
       /\ contar_puntos(h).es_suave
       /\ ~args.stand_on_soft17

\* C14: the dealer draws only when the player's total is <= 21 and the round
\* was not resolved by natural or surrender; every card the dealer drew was
\* drawn on a hand that had to draw; when the dealer's turn is over the
\* dealer's hand does not have to draw (total >= 17, and no soft 17 unless
\* stand_on_soft17); a busted player leaves the dealer with 2 cards.
C14_TurnoDelCrupier ==
    Repartida =>
        /\ Len(crupier) > 2 =>
              /\ ~HayNatural
              /\ resultado # "surrender"
              /\ contar_puntos(jugador).total <= 21
        /\ \A k \in 2..(Len(crupier) - 1) : DebePedir(SubSeq(crupier, 1, k))
        /\ contar_puntos(jugador).total > 21 => Len(crupier) = 2
        /\ ( \/ pc = "settle"
             \/ /\ Devuelta
                /\ ~HayNatural
                /\ resultado # "surrender"
                /\ contar_puntos(jugador).total <= 21 )
           => /\ ~DebePedir(crupier)
              /\ contar_puntos(crupier).total >= 17

\* the dealer hit a soft 17 and the turn is over
C14_Testigo ==
    /\ pc = "settle"
    /\ ~args.stand_on_soft17
    /\ Len(crupier) > 2
    /\ contar_puntos(Inicial(crupier)).total = 17
    /\ contar_puntos(Inicial(crupier)).es_suave

\* C15: the four initial cards are dealt alternately player, dealer, player,
\* dealer: the player holds the 1st and 3rd cards drawn from the shoe of the
\* round, the dealer the 2nd and 4th, and the dealer's face-up card
\* (crupier[0]) is the 2nd card drawn.
C15_RepartoAlterno ==
    Repartida =>
        LET n == Len(mazo_ronda)
        IN  /\ Inicial(jugador) = <<mazo_ronda[n], mazo_ronda[n - 2]>>
            /\ Inicial(crupier) = <<mazo_ronda[n - 1], mazo_ronda[n - 3]>>

\* a full shoe of n decks: 52 * n cards, per deck four of each value 1..9
\* and sixteen of value 10
MazoCompleto(m, n) ==
    /\ Len(m) = 52 * n
    /\ \A v \in 1..9 : Cuenta(m, v) = 4 * n
    /\ Cuenta(m, 10) = 16 * n

\* C16: the reshuffle check happens once per round, before the deal: at the
\* start of a round a shoe of fewer than reshuffle_threshold cards is
\* replaced by a full shoe of 52 * n_barajas cards and a shoe of at least
\* reshuffle_threshold cards is left as it is, no card being dealt yet;
\* every other step leaves the shoe or takes its top card.
C16_Rebarajar ==
    [][ /\ pc = "ensure" =>
             /\ IF Len(mazo) < args.reshuffle_threshold
                THEN MazoCompleto(mazo', args.n_barajas)
                ELSE mazo' = mazo
             /\ jugador' = <<>>
             /\ crupier' = <<>>
        /\ pc # "ensure" =>
             \/ mazo' = mazo
             \/ mazo # <<>> /\ mazo' = Resto(mazo) ]_vars

\* a round after the first starts on a shoe that was just replaced
C16_Testigo ==
    /\ rondas > 0
    /\ pc = "deal"
    /\ jugador = <<>>
    /\ MazoCompleto(mazo, args.n_barajas)

\* the player's own turn is over: no natural, no surrender, no double, and
\* the hit loop was left
TurnoJugado ==
    /\ Repartida
    /\ ~HayNatural
    /\ ~doubled
    /\ resultado # "surrender"
    /\ pc \notin {"prehit", "player", "IndexError"}

\* C17: without natural, surrender or double the player draws exactly while
\* the total is below limite_jugador: every hand the player drew on had a
\* total below the limit, the player stops at the limit or above, and a
\* total over 21 ends the round at once with ('dealer', -1), the dealer
\* keeping 2 cards.
C17_TurnoDelJugador ==
    /\ (pc = "player" \/ TurnoJugado) =>
          \A k \in 2..(Len(jugador) - 1) :
             TotalReferencia(SubSeq(jugador, 1, k)) < args.limite_jugador
    /\ TurnoJugado =>
          /\ TotalReferencia(jugador) >= args.limite_jugador
          /\ TotalReferencia(jugador) > 21 =>
                /\ Devuelta
                /\ <<resultado, factor>> = <<"dealer", -2>>
                /\ Len(crupier) = 2

\* the player hit twice and went over 21
C17_Testigo ==
    /\ TurnoJugado
    /\ pc = "return"
    /\ Len(jugador) >= 4
    /\ TotalReferencia(jugador) > 21

\* C18: a doubled player never busts: the two cards doubled on hold no ace,
\* the three-card total is at most 21 (as it would be with any other third
\* card), and a round lost with factor -2 was
\* lost in the final comparison, against a dealer who finished the turn
\* with a higher total of at most 21.
C18_DobladoNoSePasa ==
    /\ doubled =>
          /\ Len(jugador) = 3
          /\ Cuenta(Inicial(jugador), 1) = 0
          /\ TotalReferencia(Inicial(jugador)) \in {9, 10, 11}
          /\ TotalReferencia(jugador) <= 21
          /\ \A carta \in 1..10 :
                TotalReferencia(Append(Inicial(jugador), carta)) <= 21
    /\ (Devuelta /\ factor = -4) =>
          /\ doubled
          /\ resultado = "dealer"
          /\ ~DebePedir(crupier)
          /\ TotalReferencia(crupier) <= 21
          /\ TotalReferencia(crupier) > TotalReferencia(jugador)

\* a doubled 20 loses to the dealer's 21
C18_Testigo ==
    /\ pc = "return"
    /\ doubled
    /\ factor = -4
    /\ jugador[3] = 10
    /\ TotalReferencia(crupier) = 21

\* number of positions of s that hold v
Veces(s, v) == Cardinality({i \in DOMAIN s : s[i] = v})

\* C19: cards are conserved within a round: the player's hand, the dealer's
\* hand and the shoe together hold each value as often as the shoe of the
\* round did right after ensure_mazo; the shoe is shorter by exactly the
\* cards in the two hands (it is what is left below the cards drawn); and
\* no value is there more often than in a fresh shoe of 52 * n_barajas
\* cards.
C19_Conservacion ==
    /\ \A v \in 1..10 :
          /\ Veces(jugador, v) + Veces(crupier, v) + Veces(mazo, v)
                = Veces(mazo_ronda, v)
          /\ Veces(mazo_ronda, v)
                <= Veces(Repetir(crear_mazo, args.n_barajas), v)
    /\ Len(mazo) = Len(mazo_ronda) - Len(jugador) - Len(crupier)
    /\ mazo = SubSeq(mazo_ronda, 1, Len(mazo))

\* a later round on a shoe that was not replaced, both hands having drawn
C19_Testigo ==
    /\ rondas > 0
    /\ pc = "settle"
    /\ Len(mazo_ronda) < Len(crear_mazo) * args.n_barajas
    /\ Len(jugador) >= 3
    /\ Len(crupier) >= 3

\* C20: with betting_strategy = 'fixed' the bet used never exceeds the base
\* bet and never grows from one round to the next: a bet clamped to a
\* bankroll below the base bet stays, also when the bankroll is above the
\* base bet again.
C20_ApuestaFija ==
    [][ (args.betting_strategy = "fixed" /\ pc = "loop" /\ pc' = "ensure") =>
           /\ bet_used' <= base_bet
           /\ bet_used' <= dinero
           /\ rondas > 0 => bet_used' <= bet_used ]_vars

\* a round is played on a bet below the base bet although the bankroll
\* covers the base bet
C20_Testigo ==
    /\ args.betting_strategy = "fixed"
    /\ pc = "ensure"
    /\ rondas > 0
    /\ bet_used < base_bet
    /\ dinero >= base_bet

====
